---- MODULE Spec2Model ----
(***************************************************************************)
(* Model of src/main.py: the batch video redaction tool.                   *)
(* main() -> VideoProcessor.process_all -> _process_single per file ->     *)
(* _prepare_output, _process_video_stream (decode / _apply_mosaic /        *)
(* write), _handle_audio (move, or two external-tool runs),                *)
(* _cleanup_failed, workspace purge.                                       *)
(* Files on disk are abstract contents; the decoder, the writer and the    *)
(* external tool are environment choices made where the code calls them.   *)
(***************************************************************************)
EXTENDS Integers, FiniteSets, Sequences, TLC

\* ------------------------------ bounds ---------------------------------
MaxFiles == 2
MaxFrames == 2

Jobs == 1..MaxFiles

\* ------------------------- abstract file contents ----------------------
\* a file is named by what it is and by the job it belongs to
Absent == [kind |-> "absent", src |-> 0]
Old(j) == [kind |-> "old", src |-> j]
Video(j) == [kind |-> "video", src |-> j]
Partial(j) == [kind |-> "partial", src |-> j]
Muxed(j) == [kind |-> "muxed", src |-> j]
\* a file left by an earlier, killed run under the name of file j
Stale(j) == [kind |-> "stale", src |-> j]

\* values the configuration file can hold for [Region]
RegionSet ==
  { [x |-> 0, y |-> 0, w |-> 4, h |-> 4],
    [x |-> 6, y |-> 2, w |-> 4, h |-> 4],
    [x |-> 0, y |-> 6, w |-> 4, h |-> 4],
    [x |-> -8, y |-> 0, w |-> 4, h |-> 4],
    [x |-> -2, y |-> 0, w |-> 4, h |-> 4],
    [x |-> 0, y |-> 0, w |-> 2, h |-> 4] }

\* values the configuration file can hold for Processing.blur_kernel
KernelSet == {3, 4, 0, -1}

\* frame geometries of the source files (width, height)
FrameSizes == { [w |-> 8, h |-> 8], [w |-> 16, h |-> 8] }

NoFrame == [w |-> 0, h |-> 0]

\* declared frame counts: CAP_PROP_FRAME_COUNT may be negative or zero
DeclaredCounts == -1..MaxFrames

VARIABLES
  pc,             \* position of the single sequential worker
  exitCode,       \* process exit code, -1 while running
  cfg,            \* the validated configuration (ConfigManager.validate)
  env,            \* binaries / directories / number of candidate files
  out,            \* out[j]: content at the output path of file j
  ws,             \* the shared workspace _video_temp
  idx,            \* enumerate index of process_all
  total,          \* len(video_files)
  success_count,  \* process_all's counter
  cap,            \* decoder handle held
  writer,         \* "unbound" | "open" | "closed" | "released"
  frame_count,    \* declared frame count of the current source
  avail,          \* frames the decoder can still deliver
  i,              \* iterations of the decode loop done
  reads,          \* frames cap.read() has delivered to the current job
  written,        \* writer.write calls of the current job
  stopped,        \* how the decode loop ended: "no" while it has not,
                  \* "exhausted" (range done), "eof" (break), "raised"
  had_output,     \* output_path.exists() as seen by _prepare_output
  frame,          \* geometry of the current source's frames
  exc,            \* exception in flight, "none" if none
  hist,           \* per-job history: attempts, first fault, opens, tool
                  \* runs
  raised,         \* jobs whose exception reached process_all
  calc            \* encoder parameters of the current job: suffix and
                  \* bitrate reading of the source and, once
                  \* _create_video_writer has run, codec, bitrate and hint

vars == << pc, exitCode, cfg, env, calc, out, ws, idx, total, success_count,
           cap, writer, frame_count, avail, i, reads, written, stopped,
           had_output, frame, exc, hist, raised >>

streamLocals == << cap, writer, frame_count, avail, i, reads, written,
                   stopped, frame >>

jobLocals == << streamLocals, had_output >>

NoHist == [attempts |-> 0, cause |-> "none", opens |-> 0, calls |-> 0]

\* the workspace: its directory, the silent video the current job has
\* written there, audio_temp.m4a, and the names of leftover video files
EmptyWs ==
  [exists |-> FALSE, video |-> Absent, audio |-> FALSE, stale |-> {}]

\* workspaces an earlier, killed run can have left behind: the empty
\* directory, or one holding the first file's video and an audio file
LeftoverSet ==
  { [exists |-> TRUE, video |-> Absent, audio |-> FALSE, stale |-> {}],
    [exists |-> TRUE, video |-> Absent, audio |-> TRUE, stale |-> {1}] }

\* the file at temp_dir / input_path.name for job j
TempVideo(w, j) ==
  IF w.video # Absent THEN w.video
  ELSE IF j \in w.stale THEN Stale(j) ELSE Absent

\* record the first fault of job j
Fault(h, j, c) ==
  IF h[j].cause = "none" THEN [h EXCEPT ![j].cause = c] ELSE h

\* ----------------------------- pure helpers ----------------------------
\* Python slice bound normalisation for a sequence of length n
SliceBound(v, n) ==
  IF v < 0 THEN (IF v + n < 0 THEN 0 ELSE v + n)
  ELSE (IF v > n THEN n ELSE v)

\* len(range(n)[start:stop])
SliceLen(start, stop, n) ==
  LET s == SliceBound(start, n)
      e == SliceBound(stop, n)
  IN IF e > s THEN e - s ELSE 0

\* _validate_blur_kernel that forgets the parity test
validate_blur_kernel_no_parity(kernel) ==
  ~ (kernel <= 0)

\* ConfigManager._validate_blur_kernel: TRUE iff the kernel is accepted
validate_blur_kernel(kernel) ==
  ~ (kernel <= 0 \/ kernel % 2 = 0)

\* _apply_mosaic with the height half of the bounds check left out
apply_mosaic_noheight(r, f) ==
  IF r.x + r.w > f.w THEN "region_out_of_bounds"
  ELSE LET rh == SliceLen(r.y, r.y + r.h, f.h)
           rw == SliceLen(r.x, r.x + r.w, f.w)
       IN IF rh = 0 \/ rw = 0 THEN "cv_error"
          ELSE IF r.w \div 4 <= 0 \/ r.h \div 4 <= 0 THEN "cv_error"
          ELSE IF (rh # r.h /\ r.h # 1) \/ (rw # r.w /\ r.w # 1)
               THEN "shape_mismatch"
          ELSE "ok"

\* VideoProcessor._apply_mosaic: the outcome for region r on a frame f
apply_mosaic(r, f) ==
  IF r.x + r.w > f.w \/ r.y + r.h > f.h THEN "region_out_of_bounds"
  ELSE LET rh == SliceLen(r.y, r.y + r.h, f.h)
           rw == SliceLen(r.x, r.x + r.w, f.w)
       IN IF rh = 0 \/ rw = 0 THEN "cv_error"
          ELSE IF r.w \div 4 <= 0 \/ r.h \div 4 <= 0 THEN "cv_error"
          ELSE IF (rh # r.h /\ r.h # 1) \/ (rw # r.w /\ r.w # 1)
               THEN "shape_mismatch"
          ELSE "ok"

\* _apply_mosaic lines 406, 412, 417: the pixels the slice assignment
\* frame[y:y+h, x:x+w] = ... addresses on frame f
Touched(r, f) ==
  { p \in (0..(f.w - 1)) \X (0..(f.h - 1)) :
      /\ SliceBound(r.x, f.w) <= p[1] /\ p[1] < SliceBound(r.x + r.w, f.w)
      /\ SliceBound(r.y, f.h) <= p[2] /\ p[2] < SliceBound(r.y + r.h, f.h) }

\* ------------------- _create_video_writer parameters -------------------
\* floor of the halved bitrate, line 377
MinBitrate == 500000

\* bitrate used when the source reports none, line 379
DefaultBitrate == 1000000

\* output_path.suffix values, as character sequences
SuffixSet ==
  { << ".", "m", "p", "4" >>, << ".", "M", "P", "4" >>,
    << ".", "M", "p", "4" >>, << ".", "a", "v", "i" >>,
    << ".", "A", "V", "I" >>, << ".", "m", "k", "v" >>,
    << ".", "M", "K", "V" >>, << ".", "W", "E", "B", "M" >>,
    << ".", "t", "s" >>, << ".", "m", "p", "4", "v" >>,
    << ".", "m", "p" >>, << >> }

\* int(cap.get(cv2.CAP_PROP_BITRATE)) for the sources considered
BitrateReadings ==
  { -1, 0, 1, 999999, 1000000, 1000001, 1000002, 2000000, 4000001 }

\* suffixes and bitrate readings of the sources of a batch run
SourceSuffixes == { << ".", "m", "p", "4" >>, << ".", "A", "V", "I" >> }

SourceBitrates == { 2000000 }

\* the cased ASCII letters
UpperLetters ==
  << "A", "B", "C", "D", "E", "F", "G", "H", "I", "J", "K", "L", "M",
     "N", "O", "P", "Q", "R", "S", "T", "U", "V", "W", "X", "Y", "Z" >>

LowerLetters ==
  << "a", "b", "c", "d", "e", "f", "g", "h", "i", "j", "k", "l", "m",
     "n", "o", "p", "q", "r", "s", "t", "u", "v", "w", "x", "y", "z" >>

\* str.lower() on one ASCII character: an upper-case letter becomes its
\* lower-case letter, every other character is returned as it is
LowerChar(c) ==
  IF \E k \in 1..26 : UpperLetters[k] = c
    THEN LowerLetters[CHOOSE k \in 1..26 : UpperLetters[k] = c]
    ELSE c

\* str.lower()
Lower(s) == [k \in 1..Len(s) |-> LowerChar(s[k])]

\* Python max(a, b)
Max(a, b) == IF a >= b THEN a ELSE b

\* _get_video_codec: the fourcc for an extension
get_video_codec(extension) ==
  LET e == Lower(extension) IN
  CASE e = << ".", "m", "p", "4" >> -> "avc1"
    [] e = << ".", "a", "v", "i" >> -> "XVID"
    [] e = << ".", "m", "o", "v" >> -> "mp4v"
    [] e = << ".", "m", "k", "v" >> -> "X264"
    [] e = << ".", "f", "l", "v" >> -> "FLV1"
    [] e = << ".", "w", "e", "b", "m" >> -> "VP80"
    [] e = << ".", "t", "s" >> -> "H264"
    [] OTHER -> "mp4v"

\* _create_video_writer whose halved bitrate has no floor
writer_bitrate_no_floor(suffix, reading) ==
  IF Lower(suffix) = << ".", "m", "p", "4" >>
    THEN IF reading > 0 THEN reading \div 2 ELSE DefaultBitrate
    ELSE -1

\* _create_video_writer lines 373-381: the local `bitrate`
writer_bitrate(suffix, reading) ==
  IF Lower(suffix) = << ".", "m", "p", "4" >>
    THEN IF reading > 0 THEN Max(reading \div 2, MinBitrate)
                        ELSE DefaultBitrate
    ELSE -1

\* the encoder parameters of the current job: no source opened yet
NoCalc ==
  [suffix |-> << >>, reading |-> 0, done |-> FALSE, fourcc |-> "",
   bitrate |-> 0, hinted |-> FALSE, hint |-> 0]

\* _create_video_writer lines 391-392: writer.set(CAP_PROP_BITRATE,
\* bitrate) on the constructed writer, only if bitrate > 0
WriterSet(c) ==
  IF c.bitrate > 0 THEN [c EXCEPT !.hinted = TRUE, !.hint = c.bitrate]
                   ELSE c

\* ------------------------------- Init ----------------------------------
Init ==
  /\ pc = "main"
  /\ exitCode = -1
  /\ cfg \in [overwrite : BOOLEAN, remove_audio : BOOLEAN,
              region : RegionSet, blur_kernel : KernelSet]
  /\ env \in [binaries : BOOLEAN, input_dir : BOOLEAN,
              output_dir : BOOLEAN, nfiles : 0..MaxFiles]
  /\ env.input_dir = FALSE => env.nfiles = 0
  /\ \E existing \in SUBSET Jobs :
       /\ \A j \in existing : j <= env.nfiles /\ env.output_dir
       /\ out = [j \in Jobs |-> IF j \in existing THEN Old(j) ELSE Absent]
  /\ ws \in {EmptyWs} \cup (IF env.output_dir THEN LeftoverSet ELSE {})
  /\ idx = 0
  /\ total = 0
  /\ success_count = 0
  /\ cap = FALSE
  /\ writer = "unbound"
  /\ frame_count = 0
  /\ avail = 0
  /\ i = 0
  /\ reads = 0
  /\ written = 0
  /\ stopped = "no"
  /\ had_output = FALSE
  /\ frame = NoFrame
  /\ exc = "none"
  /\ hist = [j \in Jobs |-> NoHist]
  /\ raised = {}
  /\ calc = NoCalc

\* ------------------------------ main -----------------------------------
\* main(): FFmpegManager() and ConfigManager(); a rejected blur kernel ends
\* the process in _load_config (sys.exit(1)), missing binaries raise into
\* main's except (sys.exit(1)).
Startup ==
  /\ pc = "main"
  /\ IF ~ validate_blur_kernel(cfg.blur_kernel) \/ ~ env.binaries
       THEN pc' = "exit" /\ exitCode' = 1
       ELSE pc' = "process_all" /\ exitCode' = exitCode
  /\ UNCHANGED << cfg, env, calc, out, ws, idx, total, success_count, jobLocals,
                  exc, hist, raised >>

\* process_all lines 284-298: directory check and discovery
process_all ==
  /\ pc = "process_all"
  /\ IF ~ env.input_dir
       THEN pc' = "finish" /\ UNCHANGED << total, success_count >>
       ELSE IF env.nfiles = 0
         THEN pc' = "finish" /\ total' = 0 /\ UNCHANGED success_count
         ELSE pc' = "next" /\ total' = env.nfiles /\ success_count' = 0
  /\ UNCHANGED << exitCode, cfg, env, calc, out, ws, idx, jobLocals, exc, hist,
                  raised >>

\* process_all lines 299-302: loop head, call of _process_single
NextFile ==
  /\ pc = "next"
  /\ IF idx < total
       THEN /\ idx' = idx + 1
            /\ hist' = [hist EXCEPT ![idx + 1].attempts = @ + 1]
            /\ pc' = "prepare"
       ELSE /\ pc' = "report"
            /\ UNCHANGED << idx, hist >>
  /\ UNCHANGED << exitCode, cfg, env, calc, out, ws, total, success_count,
                  jobLocals, exc, raised >>

\* _prepare_output that unlinks an existing output whatever `overwrite` says
prepare_output_always_unlink ==
  /\ pc = "prepare"
  /\ had_output' = (out[idx] # Absent)
  /\ out' = [out EXCEPT ![idx] = Absent]
  /\ pc' = "mkdir"
  /\ UNCHANGED << exitCode, cfg, env, calc, ws, idx, total, success_count,
                  streamLocals, exc, hist, raised >>

\* _prepare_output that accepts an existing output under overwrite but
\* does not unlink it
prepare_output_keep_old ==
  /\ pc = "prepare"
  /\ had_output' = (out[idx] # Absent)
  /\ IF out[idx] # Absent
       THEN IF cfg.overwrite
              THEN /\ pc' = "mkdir"
                   /\ UNCHANGED << out, exc, hist >>
              ELSE /\ exc' = "output_exists"
                   /\ hist' = Fault(hist, idx, "output_exists")
                   /\ pc' = "endjob"
                   /\ UNCHANGED out
       ELSE /\ pc' = "mkdir"
            /\ UNCHANGED << out, exc, hist >>
  /\ UNCHANGED << exitCode, cfg, env, calc, ws, idx, total, success_count,
                  streamLocals, raised >>

\* _prepare_output: placement check, outside _process_single's try
prepare_output ==
  /\ pc = "prepare"
  /\ had_output' = (out[idx] # Absent)
  /\ IF out[idx] # Absent
       THEN IF cfg.overwrite
              THEN /\ out' = [out EXCEPT ![idx] = Absent]
                   /\ pc' = "mkdir"
                   /\ UNCHANGED << exc, hist >>
              ELSE /\ exc' = "output_exists"
                   /\ hist' = Fault(hist, idx, "output_exists")
                   /\ pc' = "endjob"
                   /\ UNCHANGED out
       ELSE /\ pc' = "mkdir"
            /\ UNCHANGED << out, exc, hist >>
  /\ UNCHANGED << exitCode, cfg, env, calc, ws, idx, total, success_count,
                  streamLocals, raised >>

\* _process_single line 325: temp_dir.mkdir(exist_ok=True), outside the try
MakeWorkspace ==
  /\ pc = "mkdir"
  /\ IF env.output_dir
       THEN /\ ws' = [ws EXCEPT !.exists = TRUE]
            /\ pc' = "open"
            /\ UNCHANGED << exc, hist >>
       ELSE /\ exc' = "mkdir_failed"
            /\ hist' = Fault(hist, idx, "mkdir_failed")
            /\ pc' = "endjob"
            /\ UNCHANGED ws
  /\ UNCHANGED << exitCode, cfg, env, calc, out, idx, total, success_count,
                  jobLocals, raised >>

\* _process_video_stream lines 346-348: open the source
OpenSource ==
  /\ pc = "open"
  /\ \E ok \in BOOLEAN :
       IF ok
         THEN /\ cap' = TRUE
              /\ \E f \in FrameSizes, d \in DeclaredCounts, a \in 0..MaxFrames :
                   /\ frame' = f
                   /\ frame_count' = d
                   /\ avail' = a
              /\ \E sfx \in SourceSuffixes, b \in SourceBitrates :
                   calc' = [NoCalc EXCEPT !.suffix = sfx, !.reading = b]
              /\ hist' = [hist EXCEPT ![idx].opens = @ + 1]
              /\ pc' = "writer"
              /\ exc' = exc
         ELSE /\ exc' = "cannot_open"
              /\ hist' = Fault([hist EXCEPT ![idx].opens = @ + 1], idx,
                               "cannot_open")
              /\ pc' = "cleanup"
              /\ UNCHANGED << cap, frame, frame_count, avail, calc >>
  /\ UNCHANGED << exitCode, cfg, env, out, ws, idx, total, success_count,
                  writer, i, reads, written, stopped, had_output, raised >>

\* _create_video_writer, called at line 351: codec and bitrate are computed
\* from the suffix and the source's bitrate reading, then the writer object
\* is made and either opens its file in the workspace, stays closed (codec
\* refused), or the construction raises and `writer` is never bound; the
\* bitrate is set on a constructed writer, opened or not.
create_video_writer ==
  /\ pc = "writer"
  /\ LET codec == get_video_codec(calc.suffix)
         fourcc == IF Lower(calc.suffix) = << ".", "m", "p", "4" >>
                     THEN "avc1" ELSE codec
         bitrate == writer_bitrate(calc.suffix, calc.reading)
         params == [calc EXCEPT !.done = TRUE, !.fourcc = fourcc,
                                !.bitrate = bitrate]
     IN \E res \in {"open", "closed", "raise"} :
          CASE res = "open" ->
                 /\ writer' = "open"
                 /\ ws' = [ws EXCEPT !.video = Video(idx),
                                    !.stale = @ \ {idx}]
                 /\ calc' = WriterSet(params)
                 /\ pc' = "decode"
                 /\ UNCHANGED << exc, hist >>
            [] res = "closed" ->
                 /\ writer' = "closed"
                 /\ calc' = WriterSet(params)
                 /\ pc' = "decode"
                 /\ UNCHANGED << ws, exc, hist >>
            [] res = "raise" ->
                 /\ exc' = "writer_failed"
                 /\ hist' = Fault(hist, idx, "writer_failed")
                 /\ calc' = params
                 /\ pc' = "release"
                 /\ UNCHANGED << writer, ws >>
  /\ i' = 0
  /\ UNCHANGED << exitCode, cfg, env, out, idx, total, success_count,
                  cap, frame_count, avail, reads, written, stopped,
                  had_output, frame, raised >>

\* decode loop that treats ret = False as an error instead of a break
DecodeStep_raise_on_eof ==
  /\ pc = "decode"
  /\ IF i < frame_count
       THEN IF avail = 0
              THEN /\ pc' = "release"
                   /\ stopped' = "eof"
                   /\ exc' = "truncated"
                   /\ hist' = Fault(hist, idx, "truncated")
                   /\ UNCHANGED << avail, i, reads, written >>
              ELSE LET res == apply_mosaic(cfg.region, frame) IN
                   /\ avail' = avail - 1
                   /\ reads' = reads + 1
                   /\ IF res = "ok"
                        THEN /\ written' = written + 1
                             /\ i' = i + 1
                             /\ pc' = "decode"
                             /\ UNCHANGED << stopped, exc, hist >>
                        ELSE /\ exc' = res
                             /\ hist' = Fault(hist, idx, res)
                             /\ pc' = "release"
                             /\ stopped' = "raised"
                             /\ UNCHANGED << i, written >>
       ELSE /\ pc' = "release"
            /\ stopped' = "exhausted"
            /\ UNCHANGED << avail, i, reads, written, exc, hist >>
  /\ UNCHANGED << exitCode, cfg, env, calc, out, ws, idx, total, success_count,
                  cap, writer, frame_count, had_output, frame, raised >>

\* decode loop that iterates once more than the declared count
DecodeStep_one_more ==
  /\ pc = "decode"
  /\ IF i <= frame_count
       THEN IF avail = 0
              THEN \* cap.read() returns ret = False: break
                   /\ pc' = "release"
                   /\ stopped' = "eof"
                   /\ UNCHANGED << avail, i, reads, written, exc, hist >>
              ELSE LET res == apply_mosaic(cfg.region, frame) IN
                   /\ avail' = avail - 1
                   /\ reads' = reads + 1
                   /\ IF res = "ok"
                        THEN /\ written' = written + 1
                             /\ i' = i + 1
                             /\ pc' = "decode"
                             /\ UNCHANGED << stopped, exc, hist >>
                        ELSE /\ exc' = res
                             /\ hist' = Fault(hist, idx, res)
                             /\ pc' = "release"
                             /\ stopped' = "raised"
                             /\ UNCHANGED << i, written >>
       ELSE /\ pc' = "release"
            /\ stopped' = "exhausted"
            /\ UNCHANGED << avail, i, reads, written, exc, hist >>
  /\ UNCHANGED << exitCode, cfg, env, calc, out, ws, idx, total, success_count,
                  cap, writer, frame_count, had_output, frame, raised >>

\* _process_video_stream lines 353-358: one iteration of the decode loop
DecodeStep ==
  /\ pc = "decode"
  /\ IF i < frame_count
       THEN IF avail = 0
              THEN \* cap.read() returns ret = False: break
                   /\ pc' = "release"
                   /\ stopped' = "eof"
                   /\ UNCHANGED << avail, i, reads, written, exc, hist >>
              ELSE LET res == apply_mosaic(cfg.region, frame) IN
                   /\ avail' = avail - 1
                   /\ reads' = reads + 1
                   /\ IF res = "ok"
                        THEN /\ written' = written + 1
                             /\ i' = i + 1
                             /\ pc' = "decode"
                             /\ UNCHANGED << stopped, exc, hist >>
                        ELSE /\ exc' = res
                             /\ hist' = Fault(hist, idx, res)
                             /\ pc' = "release"
                             /\ stopped' = "raised"
                             /\ UNCHANGED << i, written >>
       ELSE /\ pc' = "release"
            /\ stopped' = "exhausted"
            /\ UNCHANGED << avail, i, reads, written, exc, hist >>
  /\ UNCHANGED << exitCode, cfg, env, calc, out, ws, idx, total, success_count,
                  cap, writer, frame_count, had_output, frame, raised >>

\* _process_video_stream lines 359-361: finally cap.release();
\* writer.release() -- an unbound `writer` raises UnboundLocalError, which
\* replaces the exception in flight.  The writer and its parameters are
\* gone when the function is left.
ReleaseHandles ==
  /\ pc = "release"
  /\ cap' = FALSE
  /\ calc' = NoCalc
  /\ IF writer = "unbound"
       THEN /\ exc' = "unbound_writer"
            /\ writer' = writer
       ELSE /\ exc' = exc
            /\ writer' = "released"
  /\ pc' = IF exc' # "none" THEN "cleanup" ELSE "audio"
  /\ UNCHANGED << exitCode, cfg, env, out, ws, idx, total, success_count,
                  frame_count, avail, i, reads, written, stopped, had_output,
                  frame, hist, raised >>

\* exit codes of the external tool
ExitCodes == {0, 1}

\* _handle_audio whose extraction runs without check=True: a non-zero exit
\* is not noticed and the mux is started all the same
handle_audio_unchecked_extract ==
  /\ pc = "audio"
  /\ IF cfg.remove_audio
       THEN IF TempVideo(ws, idx) # Absent
              THEN /\ out' = [out EXCEPT ![idx] = TempVideo(ws, idx)]
                   /\ ws' = [ws EXCEPT !.video = Absent,
                                       !.stale = @ \ {idx}]
                   /\ pc' = "purge"
                   /\ UNCHANGED << exc, hist >>
              ELSE /\ exc' = "move_failed"
                   /\ hist' = Fault(hist, idx, "move_failed")
                   /\ pc' = "cleanup"
                   /\ UNCHANGED << out, ws >>
       ELSE \E code \in ExitCodes, leaves \in BOOLEAN :
              /\ IF code = 0
                   THEN /\ ws' = [ws EXCEPT !.audio = TRUE]
                        /\ hist' = [hist EXCEPT ![idx].calls = @ + 1]
                        /\ pc' = "mux"
                   ELSE /\ ws' = [ws EXCEPT !.audio = leaves]
                        /\ hist' = Fault([hist EXCEPT ![idx].calls = @ + 1],
                                         idx, "extract_failed")
                        /\ pc' = "mux"
              /\ UNCHANGED << out, exc >>
  /\ UNCHANGED << exitCode, cfg, env, calc, idx, total, success_count, jobLocals,
                  raised >>

\* _handle_audio lines 448-462: the direct move when audio is removed,
\* otherwise the first external-tool run (audio extraction, blocking);
\* a non-zero exit is caught by the except at line 475 and only logged.
handle_audio ==
  /\ pc = "audio"
  /\ IF cfg.remove_audio
       THEN IF TempVideo(ws, idx) # Absent
              THEN /\ out' = [out EXCEPT ![idx] = TempVideo(ws, idx)]
                   /\ ws' = [ws EXCEPT !.video = Absent,
                                       !.stale = @ \ {idx}]
                   /\ pc' = "purge"
                   /\ UNCHANGED << exc, hist >>
              ELSE /\ exc' = "move_failed"
                   /\ hist' = Fault(hist, idx, "move_failed")
                   /\ pc' = "cleanup"
                   /\ UNCHANGED << out, ws >>
       ELSE \E code \in ExitCodes, leaves \in BOOLEAN :
              /\ IF code = 0
                   THEN /\ ws' = [ws EXCEPT !.audio = TRUE]
                        /\ hist' = [hist EXCEPT ![idx].calls = @ + 1]
                        /\ pc' = "mux"
                   ELSE /\ ws' = [ws EXCEPT !.audio = leaves]
                        /\ hist' = Fault([hist EXCEPT ![idx].calls = @ + 1],
                                         idx, "extract_failed")
                        /\ pc' = "audio_finally"
              /\ UNCHANGED << out, exc >>
  /\ UNCHANGED << exitCode, cfg, env, calc, idx, total, success_count, jobLocals,
                  raised >>

\* _handle_audio lines 465-474: the second external-tool run starts; it
\* needs the silent video artifact, and creates the file at the output path
\* when it begins to write.
MuxStart ==
  /\ pc = "mux"
  /\ \E started \in BOOLEAN :
       IF started /\ TempVideo(ws, idx) # Absent
         THEN /\ out' = [out EXCEPT ![idx] = Partial(idx)]
              /\ hist' = [hist EXCEPT ![idx].calls = @ + 1]
              /\ pc' = "muxing"
         ELSE /\ hist' = Fault([hist EXCEPT ![idx].calls = @ + 1], idx,
                               "mux_failed")
              /\ pc' = "audio_finally"
              /\ out' = out
  /\ UNCHANGED << exitCode, cfg, env, calc, ws, idx, total, success_count,
                  jobLocals, exc, raised >>

\* the second external-tool run exits; check=True raises on non-zero, the
\* except at line 475 logs it and the function goes on to its finally.
MuxExit ==
  /\ pc = "muxing"
  /\ \E code \in ExitCodes :
       IF code = 0
         THEN /\ out' = [out EXCEPT ![idx] = Muxed(idx)]
              /\ hist' = hist
         ELSE /\ out' = out
              /\ hist' = Fault(hist, idx, "mux_failed")
  /\ pc' = "audio_finally"
  /\ UNCHANGED << exitCode, cfg, env, calc, ws, idx, total, success_count,
                  jobLocals, exc, raised >>

\* _handle_audio whose unlink sits at the end of the try instead of in the
\* finally: it is skipped when a tool run has failed
AudioFinally_skip_on_failure ==
  /\ pc = "audio_finally"
  /\ ws' = IF hist[idx].cause = "none" THEN [ws EXCEPT !.audio = FALSE]
                                       ELSE ws
  /\ pc' = "purge"
  /\ UNCHANGED << exitCode, cfg, env, calc, out, idx, total, success_count,
                  jobLocals, exc, hist, raised >>

\* _handle_audio lines 477-479: finally, unlink the extracted audio; the
\* function then returns normally.
AudioFinally ==
  /\ pc = "audio_finally"
  /\ ws' = [ws EXCEPT !.audio = FALSE]
  /\ pc' = "purge"
  /\ UNCHANGED << exitCode, cfg, env, calc, out, idx, total, success_count,
                  jobLocals, exc, hist, raised >>

\* _cleanup_failed, called from the except of _process_single
cleanup_failed ==
  /\ pc = "cleanup"
  /\ out' = IF out[idx] # Absent THEN [out EXCEPT ![idx] = Absent] ELSE out
  /\ pc' = "purge"
  /\ UNCHANGED << exitCode, cfg, env, calc, ws, idx, total, success_count,
                  jobLocals, exc, hist, raised >>

\* _process_single line 334: finally shutil.rmtree(temp_dir); the exception
\* in flight, if any, is then re-raised to process_all.
PurgeWorkspace ==
  /\ pc = "purge"
  /\ ws' = EmptyWs
  /\ pc' = "endjob"
  /\ UNCHANGED << exitCode, cfg, env, calc, out, idx, total, success_count,
                  jobLocals, exc, hist, raised >>

\* process_all lines 303-305: count the job or log its failure
EndJob ==
  /\ pc = "endjob"
  /\ IF exc = "none"
       THEN success_count' = success_count + 1 /\ raised' = raised
       ELSE success_count' = success_count /\ raised' = raised \cup {idx}
  /\ exc' = "none"
  /\ cap' = FALSE
  /\ writer' = "unbound"
  /\ frame_count' = 0
  /\ avail' = 0
  /\ i' = 0
  /\ reads' = 0
  /\ written' = 0
  /\ stopped' = "no"
  /\ had_output' = FALSE
  /\ frame' = NoFrame
  /\ pc' = "next"
  /\ UNCHANGED << exitCode, cfg, env, calc, out, ws, idx, total, hist >>

\* process_all line 307: the summary line
Report ==
  /\ pc = "report"
  /\ pc' = "finish"
  /\ UNCHANGED << exitCode, cfg, env, calc, out, ws, idx, total, success_count,
                  jobLocals, exc, hist, raised >>

\* main lines 498-511 and the atexit cleanup of _register_cleanup: normal
\* return of process_all, exit code 0
Finish ==
  /\ pc = "finish"
  /\ exitCode' = 0
  /\ ws' = IF ws.exists THEN EmptyWs ELSE ws
  /\ pc' = "exit"
  /\ UNCHANGED << cfg, env, calc, out, idx, total, success_count, jobLocals,
                  exc, hist, raised >>

Next ==
  \/ Startup
  \/ process_all
  \/ NextFile
  \/ prepare_output
  \/ MakeWorkspace
  \/ OpenSource
  \/ create_video_writer
  \/ DecodeStep
  \/ ReleaseHandles
  \/ handle_audio
  \/ MuxStart
  \/ MuxExit
  \/ AudioFinally
  \/ cleanup_failed
  \/ PurgeWorkspace
  \/ EndJob
  \/ Report
  \/ Finish

Spec == Init /\ [][Next]_vars

\* ---------------- _create_video_writer on many sources -----------------
\* the worker stands before _create_video_writer (line 351) in the first
\* job of a one-file run, the source open, for every suffix and bitrate
\* reading considered
InitWriter ==
  /\ pc = "writer"
  /\ exitCode = -1
  /\ cfg = [overwrite |-> FALSE, remove_audio |-> FALSE,
            region |-> [x |-> 0, y |-> 0, w |-> 4, h |-> 4],
            blur_kernel |-> 3]
  /\ env = [binaries |-> TRUE, input_dir |-> TRUE, output_dir |-> TRUE,
            nfiles |-> 1]
  /\ out = [j \in Jobs |-> Absent]
  /\ ws = [EmptyWs EXCEPT !.exists = TRUE]
  /\ idx = 1
  /\ total = 1
  /\ success_count = 0
  /\ cap = TRUE
  /\ writer = "unbound"
  /\ frame_count = 1
  /\ avail = 1
  /\ i = 0
  /\ reads = 0
  /\ written = 0
  /\ stopped = "no"
  /\ had_output = FALSE
  /\ frame = [w |-> 8, h |-> 8]
  /\ exc = "none"
  /\ hist = [j \in Jobs |->
               IF j = 1 THEN [NoHist EXCEPT !.attempts = 1, !.opens = 1]
                        ELSE NoHist]
  /\ raised = {}
  /\ \E sfx \in SuffixSet, b \in BitrateReadings :
       calc = [NoCalc EXCEPT !.suffix = sfx, !.reading = b]

NextWriter == create_video_writer

SpecWriter == InitWriter /\ [][NextWriter]_vars

TypeOK ==
  /\ pc \in {"main", "process_all", "next", "prepare", "mkdir", "open",
             "writer", "decode", "release", "audio", "mux", "muxing",
             "audio_finally", "cleanup", "purge", "endjob", "report",
             "finish", "exit"}
  /\ exitCode \in {-1, 0, 1}
  /\ idx \in 0..MaxFiles
  /\ success_count \in 0..MaxFiles
  /\ raised \subseteq Jobs

\* ------------------------------ claims ---------------------------------
\* job j has ended: process_all has counted it or logged its failure
Finished(j) ==
  \/ j < idx
  \/ j = idx /\ pc \in {"next", "report", "finish", "exit"}

\* the file at the output path of j was written there by job j
ProducedByJob(j) ==
  out[j].src = j /\ out[j].kind \in {"video", "partial", "muxed"}

\* job j has reached DONE: its move or its mux has completed, no fault
ReachedDone(j) ==
  /\ hist[j].cause = "none"
  /\ \/ j < idx
     \/ j = idx /\ pc \in {"audio_finally", "purge", "endjob", "next",
                           "report", "finish", "exit"}

\* x + width > frameWidth or y + height > frameHeight
OutOfBounds(r, f) == r.x + r.w > f.w \/ r.y + r.h > f.h

\* C1: in audio-preserving mode a job whose extraction or mux exited
\* non-zero is a per-job failure: its exception reaches process_all and the
\* job is not counted as succeeded.
C1_ToolFailureIsJobFailure ==
  \A j \in Jobs :
    (~ cfg.remove_audio /\ Finished(j)
       /\ hist[j].cause \in {"extract_failed", "mux_failed"})
    => /\ j \in raised
       /\ success_count < Cardinality({k \in Jobs : Finished(k)})

\* C2: if the mux of a job exited non-zero, no file exists at the job's
\* output path once the job has finished.
C2_MuxFailureLeavesNoOutput ==
  \A j \in Jobs :
    (Finished(j) /\ hist[j].cause = "mux_failed") => out[j] = Absent

\* C3: batch isolation. When the loop is over and exactly one of the N jobs
\* hit a per-job failure, every file was attempted exactly once, succeeded
\* is N-1 of total N, the failing job left no file of its own at its output
\* path and every other output path holds a file.  (A file that was at the
\* failing job's path before the run is not held against the claim.)
C3_BatchIsolation ==
  LET failing == {j \in 1..total : hist[j].cause # "none"} IN
  (pc = "report" /\ Cardinality(failing) = 1)
  => /\ \A j \in 1..total : hist[j].attempts = 1
     /\ success_count = total - 1
     /\ \A j \in failing : ~ ProducedByJob(j)
     /\ \A j \in (1..total) \ failing : out[j] # Absent

\* C4: no partial-result visibility. A file written by job j is at j's
\* output path only if j has reached DONE.
C4_NoPartialVisibility ==
  \A j \in Jobs : ProducedByJob(j) => ReachedDone(j)

\* C5: overwrite policy. With overwrite disabled a job that finds a file
\* at its output path fails at the placement check: the source is never
\* opened, nothing is read or written, no tool runs, nothing is put into
\* the workspace, the failure reaches process_all, and the old file stays in
\* place (the failure cleanup does not delete it).  With overwrite enabled
\* the old file is gone from the placement check on, and a job that
\* completes leaves its own output at the path (the file it moved or muxed
\* there; C9 is about which file that is).
C5_OverwritePolicy ==
  /\ (had_output /\ ~ cfg.overwrite)
     => /\ out[idx] = Old(idx)
        /\ pc = "endjob" /\ exc = "output_exists"
        /\ hist[idx].cause = "output_exists"
        /\ hist[idx].opens = 0 /\ hist[idx].calls = 0
        /\ reads = 0 /\ written = 0
        /\ ~ cap /\ writer = "unbound" /\ ws.video = Absent
  /\ (had_output /\ cfg.overwrite)
     => /\ out[idx].kind # "old"
        /\ hist[idx].cause # "output_exists"
        /\ (pc = "endjob" /\ exc = "none" /\ hist[idx].cause = "none")
             => out[idx] \in {Video(idx), Muxed(idx), Stale(idx)}
  /\ \A j \in Jobs :
       /\ hist[j].cause = "output_exists"
            => /\ ~ cfg.overwrite
               /\ out[j] = Old(j)
               /\ hist[j].opens = 0 /\ hist[j].calls = 0
               /\ Finished(j) => j \in raised
       /\ (cfg.overwrite /\ (j < idx \/ (j = idx /\ pc # "prepare")))
            => out[j].kind # "old"

\* C5 witness: an output path held a file, overwrite is disabled, the job
\* has failed and ended, and the old file is still there.
C5_Witness ==
  \E j \in Jobs :
    /\ ~ cfg.overwrite /\ Finished(j) /\ j \in raised
    /\ hist[j].cause = "output_exists" /\ out[j] = Old(j)

\* C6 as stated: a job whose source holds frames that put the region out
\* of bounds ends as a failure with no file at its output path.
C6_AnyFileOutOfBoundsFails ==
  (pc = "endjob" /\ frame # NoFrame /\ OutOfBounds(cfg.region, frame)
     /\ (avail > 0 \/ reads > 0))
  => (exc # "none" /\ out[idx] = Absent)

\* C6 (amended): a job that decodes a frame whose geometry puts the region
\* out of bounds fails with region-out-of-bounds on that first frame, before
\* any frame is written, and no file exists at its output path when it ends
\* and afterwards.
C6_RegionOutOfBounds ==
  /\ (frame # NoFrame /\ OutOfBounds(cfg.region, frame))
     => /\ written = 0
        /\ reads > 0
             => /\ reads = 1
                /\ hist[idx].cause = "region_out_of_bounds"
                /\ pc \in {"release", "cleanup", "purge", "endjob"}
                /\ exc = "region_out_of_bounds"
                /\ out[idx] = Absent
  /\ \A j \in Jobs :
       hist[j].cause = "region_out_of_bounds"
       => /\ out[j] = Absent
          /\ Finished(j) => j \in raised

\* C6 witness: a job has ended after the bounds check rejected its frame.
C6_Witness ==
  \E j \in Jobs :
    /\ Finished(j) /\ hist[j].cause = "region_out_of_bounds"
    /\ j \in raised /\ out[j] = Absent

\* C7: region invariant. Whenever a frame of the current job has been
\* passed to the writer, 0 <= x, 0 <= y, x+width <= frameWidth and
\* y+height <= frameHeight.
C7_RegionInvariant ==
  written > 0
  => /\ 0 <= cfg.region.x
     /\ 0 <= cfg.region.y
     /\ cfg.region.x + cfg.region.w <= frame.w
     /\ cfg.region.y + cfg.region.h <= frame.h

\* C8: when the input directory does not exist the run processes no file
\* and the process ends with a non-zero exit code.
C8_MissingInputDirIsFatal ==
  (pc = "exit" /\ ~ env.input_dir)
  => /\ exitCode # 0
     /\ \A j \in Jobs : hist[j].attempts = 0

\* C9: when remove_audio is true no job runs the external tool, and a
\* file that a job of this run put at its output path is the silent video
\* that job encoded, moved there from the workspace.
C9_RemoveAudioNoTool ==
  cfg.remove_audio
  => /\ pc \notin {"mux", "muxing", "audio_finally"}
     /\ \A j \in Jobs :
          /\ hist[j].calls = 0
          /\ out[j] # Absent
               => \/ out[j] = Old(j)
                  \/ /\ out[j] = Video(j)
                     /\ ws.video # Video(j)
                     /\ hist[j].cause = "none"
          /\ (Finished(j) /\ j \notin raised) => out[j] = Video(j)

\* C10: workspace lifecycle. A job that got as far as creating the
\* workspace has purged it when it ends, no job starts while the workspace
\* holds a video written by an earlier job, and the workspace directory
\* does not exist once the batch loop has finished.
C10_WorkspaceLifecycle ==
  /\ (pc = "endjob" /\ hist[idx].opens >= 1) => ws = EmptyWs
  /\ pc \in {"next", "prepare", "mkdir"} => ws.video = Absent
  /\ ws.video # Absent => ws.video = Video(idx)
  /\ pc = "report" => ~ ws.exists

\* C11: in audio-preserving mode the extracted audio artifact is gone from
\* the workspace once _handle_audio has returned (the worker then stands
\* before the workspace purge with no exception in flight), whether a tool
\* run failed or not, and whether or not an audio file was there before.
C11_AudioArtifactRemoved ==
  (~ cfg.remove_audio /\ pc = "purge" /\ exc = "none") => ~ ws.audio

\* C11 witness: _handle_audio has returned after an extraction that exited
\* 0 (the artifact existed) and a mux that failed; the artifact is gone
\* while the workspace still exists.
C11_Witness ==
  /\ ~ cfg.remove_audio /\ pc = "purge" /\ ws.exists
  /\ hist[idx].cause = "mux_failed" /\ hist[idx].calls = 2
  /\ ~ ws.audio

\* C12: a blur_kernel that is even or not positive ends the process with a
\* non-zero exit code at startup: the run never reaches process_all, no job
\* is started and no source is opened.
C12_BadKernelIsFatal ==
  (cfg.blur_kernel <= 0 \/ cfg.blur_kernel % 2 = 0)
  => /\ pc \in {"main", "exit"}
     /\ pc = "exit" => exitCode = 1
     /\ idx = 0
     /\ \A j \in Jobs : hist[j].attempts = 0 /\ hist[j].opens = 0

\* C12 witness: binaries are present, the kernel is even, and the process
\* has ended with exit code 1.
C12_Witness ==
  /\ env.binaries /\ env.input_dir /\ env.nfiles > 0
  /\ cfg.blur_kernel = 4
  /\ pc = "exit" /\ exitCode = 1


\* C13: when a job is considered finished, the decoder handle and every
\* writer handle that was acquired have been released, and the failure in
\* flight is not one raised by the release step itself.
C13_ReleaseDiscipline ==
  pc = "endjob"
  => /\ ~ cap
     /\ writer \notin {"open", "closed"}
     /\ exc # "unbound_writer"

\* C14: when the decoder signalled end-of-stream before the declared count
\* was exhausted, the loop stopped without raising, exactly the frames read
\* were transformed and written, and the job went on to _handle_audio: the
\* only failure it can still meet is the move of a missing artifact.
C14_TolerantTruncation ==
  stopped = "eof"
  => /\ i < frame_count /\ avail = 0
     /\ written = reads /\ reads = i
     /\ exc \in {"none", "move_failed"}
     /\ pc = "release" => exc = "none" /\ hist[idx].cause = "none"
     /\ pc = "cleanup" => exc = "move_failed"
     /\ pc \in {"release", "audio", "mux", "muxing", "audio_finally",
                "cleanup", "purge", "endjob"}

\* C14 witness: a truncated source (one frame delivered, more declared)
\* whose job ended without failure with its output in place.
C14_Witness ==
  /\ stopped = "eof" /\ pc = "endjob" /\ exc = "none"
  /\ hist[idx].cause = "none"
  /\ written = 1 /\ frame_count = 2
  /\ out[idx] \in {Video(idx), Muxed(idx)}


\* region r lies fully inside the bounds of frame f
Inside(r, f) ==
  /\ r.x >= 0 /\ r.y >= 0 /\ r.w >= 0 /\ r.h >= 0
  /\ r.x + r.w <= f.w /\ r.y + r.h <= f.h

\* C15: for a region fully inside the frame bounds every frame handed to
\* _apply_mosaic comes back (same dimensions, so it is written), and the
\* pixels the transform assigns all lie in [x, x+width) x [y, y+height).
C15_InsideRegionPreserved ==
  (reads > 0 /\ Inside(cfg.region, frame))
  => /\ apply_mosaic(cfg.region, frame) = "ok"
     /\ written = reads
     /\ exc \notin {"cv_error", "shape_mismatch", "region_out_of_bounds"}
     /\ \A p \in Touched(cfg.region, frame) :
          /\ cfg.region.x <= p[1] /\ p[1] < cfg.region.x + cfg.region.w
          /\ cfg.region.y <= p[2] /\ p[2] < cfg.region.y + cfg.region.h


\* the suffix reads ".mp4" in any letter case
IsMp4(s) ==
  /\ Len(s) = 4 /\ s[1] = "." /\ s[4] = "4"
  /\ s[2] \in {"m", "M"} /\ s[3] \in {"p", "P"}

\* C16: once _create_video_writer has computed its parameters, for a .mp4
\* suffix (any letter case) the target bitrate is max(reading div 2, 500000)
\* when the reading is positive and 1000000 when it is zero or negative,
\* and it is set on the writer that was constructed; for any other suffix
\* no bitrate is set on the writer.
C16_WriterBitrateHint ==
  calc.done
  => /\ (IsMp4(calc.suffix) /\ calc.reading > 0)
          => /\ calc.bitrate >= 500000
             /\ calc.bitrate >= calc.reading \div 2
             /\ calc.bitrate \in {500000, calc.reading \div 2}
     /\ (IsMp4(calc.suffix) /\ calc.reading <= 0)
          => calc.bitrate = 1000000
     /\ (IsMp4(calc.suffix) /\ writer \in {"open", "closed"})
          => calc.hinted /\ calc.hint = calc.bitrate
     /\ ~ IsMp4(calc.suffix) => ~ calc.hinted
     /\ writer = "unbound" => ~ calc.hinted

\* C16 witness: a writer has been constructed for an upper-case .MP4
\* suffix with a low positive reading and the floor was set on it.
C16_Witness ==
  /\ calc.done /\ calc.suffix = << ".", "M", "P", "4" >>
  /\ writer = "open" /\ ws.video = Video(idx)
  /\ calc.reading = 999999 /\ calc.fourcc = "avc1"
  /\ calc.hinted /\ calc.hint = 500000

\* C17: per-job ordering, clause by clause.
\*  (a) open comes after the placement check and the workspace, the loop
\*      after the open, and while the source is open or the loop runs no
\*      tool has run and the job has put nothing at its output path;
\*  (b) the move and the tool runs come after the loop has ended and the
\*      decoder and the writer have been released, and the mux after the
\*      extraction;
\*  (c) a job that put a file at its output path or ran the tool had opened
\*      its source and released its writer first;
\*  (d) a job that got as far as the open has purged the workspace when it
\*      ends;
\*  (e) a job is counted as succeeded only after its workspace purge and
\*      only if it did not fail: every counted job has no fault, and the
\*      counter never exceeds the number of ended jobs without a fault.
C17_PerJobOrdering ==
  LET Placed(j) == out[j].kind \in {"video", "partial", "muxed", "stale"}
      Counted(j) == Finished(j) /\ j \notin raised
  IN /\ pc \in {"writer", "decode", "release"}
          => /\ ws.exists /\ hist[idx].opens = 1 /\ hist[idx].calls = 0
             /\ ~ Placed(idx)
     /\ pc \in {"writer", "decode"} => cap
     /\ pc \in {"audio", "mux", "muxing", "audio_finally"}
          => /\ writer = "released" /\ ~ cap
             /\ stopped \in {"exhausted", "eof"}
             /\ hist[idx].opens = 1 /\ ws.exists
     /\ pc \in {"mux", "muxing"} => hist[idx].calls >= 1
     /\ \A j \in Jobs :
          (hist[j].calls > 0 \/ Placed(j))
          => /\ hist[j].opens = 1
             /\ j = idx => (writer = "released" \/ Finished(j))
     /\ (pc = "endjob" /\ hist[idx].opens >= 1) => ws = EmptyWs
     /\ \A j \in Jobs :
          Counted(j) => /\ hist[j].cause = "none"
                        /\ j = idx => ~ ws.exists
     /\ success_count <=
          Cardinality({j \in Jobs : Finished(j) /\ hist[j].cause = "none"})

\* C18: with overwrite enabled the file found at the output path is gone
\* from the placement check on and never comes back, and a job whose
\* exception reaches process_all (open, transform, encode or move failure)
\* ends with nothing at its output path.
C18_OverwriteNeverRestores ==
  /\ (cfg.overwrite /\ had_output) => out[idx].kind # "old"
  /\ (cfg.overwrite /\ had_output /\ pc = "endjob" /\ exc # "none")
       => out[idx] = Absent
  /\ \A j \in raised : cfg.overwrite => out[j] = Absent

\* C18 witness: overwrite is on, the job found an old file, a frame was
\* read and the transform rejected it; the job ends with an empty path.
C18_Witness ==
  /\ cfg.overwrite /\ had_output /\ pc = "endjob"
  /\ exc = "region_out_of_bounds" /\ reads = 1
  /\ out[idx] = Absent


\* C19 as stated, for every job whose loop has ended: the frames written
\* are min(declared count, frames the decoder can deliver).
C19_WrittenIsMinAlways ==
  stopped # "no"
  => written = IF frame_count <= 0 THEN 0
               ELSE IF frame_count <= avail + reads THEN frame_count
               ELSE avail + reads

\* C19 (amended): the loop never reads past the declared count; when it
\* ends without an exception (range exhausted or end-of-stream) the frames
\* written are min(declared count, frames the decoder can deliver); with a
\* declared count of zero or less nothing is read or written and the job
\* still goes on to _handle_audio.
C19_FramesWritten ==
  /\ reads <= IF frame_count <= 0 THEN 0 ELSE frame_count
  /\ written <= reads
  /\ stopped \in {"exhausted", "eof"}
       => written = IF frame_count <= 0 THEN 0
                    ELSE IF frame_count <= avail + reads THEN frame_count
                    ELSE avail + reads
  /\ (stopped # "no" /\ frame_count <= 0)
       => /\ written = 0 /\ reads = 0 /\ stopped = "exhausted"
          /\ exc \in {"none", "move_failed"}
          /\ pc = "release" => exc = "none"
          /\ pc = "cleanup" => exc = "move_failed"

\* C19 witness: the decoder could deliver two frames, one was declared,
\* exactly one was written and the job ended without failure.
C19_Witness ==
  /\ pc = "endjob" /\ exc = "none" /\ hist[idx].cause = "none"
  /\ stopped = "exhausted"
  /\ frame_count = 1 /\ avail = 1 /\ reads = 1 /\ written = 1
  /\ out[idx] \in {Video(idx), Muxed(idx)}


\* C20: in an audio-preserving job the mux is invoked only after the
\* extraction has exited 0; after an extraction that exited non-zero the
\* tool is not invoked again for that job and it writes nothing to the
\* output path.
C20_MuxOnlyAfterExtraction ==
  /\ pc \in {"mux", "muxing"}
       => /\ ~ cfg.remove_audio
          /\ hist[idx].calls >= 1 /\ hist[idx].cause = "none"
          /\ pc = "mux" => ws.audio /\ hist[idx].calls = 1
  /\ \A j \in Jobs :
       /\ hist[j].cause = "extract_failed"
            => /\ hist[j].calls = 1
               /\ out[j].kind \notin {"partial", "muxed"}
               /\ ~ ProducedByJob(j)
       /\ hist[j].calls = 2 => hist[j].cause \in {"none", "mux_failed"}
       /\ hist[j].calls <= 2

\* C20 witness: a job whose extraction exited non-zero has ended after one
\* tool run, with nothing at its output path.
C20_Witness ==
  \E j \in Jobs :
    /\ Finished(j) /\ hist[j].cause = "extract_failed"
    /\ hist[j].calls = 1 /\ out[j] = Absent

====
